---- MODULE Spec2Model ----
(***************************************************************************)
(* FiableAuto backend: the missions / mission_photos / inspections tables  *)
(* and the request handlers that read and write them.  Two deployments     *)
(* exist in the repository: the "full" server (six statuses, inspections,  *)
(* updated_at maintenance) and the "minimal" server (four statuses).       *)
(* Every SQL statement is one atomic step; a handler that awaits several   *)
(* statements is several steps of one in-flight request.  Whether the      *)
(* store answers a statement is an input of the step ("up").               *)
(***************************************************************************)
EXTENDS Integers, Sequences, FiniteSets

VARIABLES
    deployment,   \* which server file is running: "full" or "minimal"
    now,          \* the clock (new Date() / CURRENT_TIMESTAMP)
    missions,     \* table missions, rows in insertion order
    missionSeq,   \* last value of the sequence behind missions.id
    photos,       \* table mission_photos, rows in insertion order
    photoSeq,     \* last value of the sequence behind mission_photos.id
    inspections,  \* table inspections, rows in insertion order
    inspSeq,      \* last value of the sequence behind inspections.id
    inflight,     \* per request slot: the handler's position and locals
    resp,         \* the last response sent: operation and HTTP status
    data          \* the data field of that response's JSON body

vars == <<deployment, now, missions, missionSeq, photos, photoSeq,
          inspections, inspSeq, inflight, resp, data>>

(***************************************************************************)
(* Bounds of the model.                                                    *)
(***************************************************************************)
\* Spec (every handler, one clock instant)
MaxMissions == 1
MaxPhotoSeq == 1
MaxInspSeq == 1
\* SpecStatus (the status workflow under a running clock)
MaxStatusMissions == 2
MaxStatusTime == 1
\* SpecCreate (concurrent creates over several days, with the random fallback)
MaxCreateMissions == 3
MaxCreateTime == 1
MaxDraw == 2
DayLen == 1
\* SpecSeq (one long run of sequential creates on one day)
MaxSeqMissions == 1001
\* SpecPhotos (uploads under a running clock)
MaxPhotoMissions == 2
MaxPhotoUploads == 3
MaxPhotoTime == 1
\* SpecView (the aggregated read view over photos uploaded at several times)
MaxViewMissions == 2
MaxViewUploads == 3
MaxViewInsp == 1
MaxViewTime == 1
\* SpecInspect (inspections submitted again and again)
MaxInspMissions == 2
MaxInspSubmits == 3
MaxInspTime == 1
\* SpecStats (the counters of GET /api/stats)
MaxStatsMissions == 2
\* SpecInspectRace (concurrent inspections of one mission)
MaxRaceMissions == 1
MaxRaceSubmits == 3
\* SpecFrame (every operation on a mission that moves through the statuses)
MaxFrameMissions == 1
MaxFrameUploads == 1
MaxFrameInsp == 1
MaxFrameTime == 1
\* SpecSearch (requests to /api/missions/<segment>)
MaxSearchMissions == 2
MaxSearchTime == 1

(***************************************************************************)
(* Values.                                                                 *)
(***************************************************************************)
NULL == "NULL"
NoTime == -1
PadWidth == 3

Requests == {"r1", "r2"}
Solo == {"r1"}
Deployments == {"full", "minimal"}

RequiredFields == {"vehicleBrand", "vehicleModel", "pickupLocation",
                   "deliveryLocation", "clientName", "clientEmail"}
ObservationValues == {NULL, "o1"}
SignatureValues == {NULL, "s1"}
StatusInputs == {"pending", "assigned", "in_progress", "photos_taken",
                 "completed", "cancelled", "not_a_status", NULL}

\* JavaScript truthiness of a request field: undefined, null and "" are falsy.
Falsy(v) == v = NULL \/ v = ""

\* Variant: no status is refused.
StatusListAny(d) == StatusInputs

\* Variant: the minimal server tests against the six-status list.
StatusListSix(d) ==
    {"pending", "assigned", "in_progress", "photos_taken", "completed", "cancelled"}

\* The status list of the includes() test of PUT /api/missions/:id/status.
StatusList(d) ==
    IF d = "full"
    THEN {"pending", "assigned", "in_progress", "photos_taken", "completed", "cancelled"}
    ELSE {"pending", "in_progress", "completed", "cancelled"}

(***************************************************************************)
(* Strings of decimal digits, as sequences over 0..9.                      *)
(***************************************************************************)
RECURSIVE ToString(_)
\* Number.prototype.toString of a non-negative integer.
ToString(n) == IF n < 10 THEN <<n>> ELSE ToString(n \div 10) \o <<n % 10>>

RECURSIVE PadStart(_, _)
\* String.prototype.padStart(w, '0'): never truncates.
PadStart(s, w) == IF Len(s) >= w THEN s ELSE PadStart(<<0>> \o s, w)

RECURSIVE ParseInt(_)
\* parseInt of a string of decimal digits.
ParseInt(s) ==
    IF Len(s) = 0 THEN 0
    ELSE 10 * ParseInt(SubSeq(s, 1, Len(s) - 1)) + s[Len(s)]

RECURSIVE StrLess(_, _)
\* String order of ORDER BY on two digit strings: a < b.
StrLess(a, b) ==
    IF Len(b) = 0 THEN FALSE
    ELSE IF Len(a) = 0 THEN TRUE
    ELSE IF a[1] # b[1] THEN a[1] < b[1]
    ELSE StrLess(Tail(a), Tail(b))

\* now.toISOString().slice(0, 10).replace(/-/g, ''): the day of the clock.
DateStamp(t) == t \div DayLen

\* `FA-${date}-${suffix}`: the code as its date stamp and its third '-' field.
MissionCode(stamp, suffix) == [stamp |-> stamp, suffix |-> suffix]

\* mission_code LIKE 'FA-<date>-%'
CodeLike(code, stamp) == code.stamp = stamp

\* lastCode.split('-')[2]
SplitSuffix(code) == code.suffix

RECURSIVE LastRowLike(_, _, _, _)
\* ORDER BY mission_code DESC LIMIT 1 over rows lo..hi whose code is LIKE the
\* date prefix: the index of the row with the greatest code, 0 for no row.
LastRowLike(ms, stamp, lo, hi) ==
    IF lo > hi THEN 0
    ELSE IF lo = hi THEN (IF CodeLike(ms[lo].mission_code, stamp) THEN lo ELSE 0)
    ELSE LET mid == (lo + hi) \div 2
             a == LastRowLike(ms, stamp, lo, mid)
             b == LastRowLike(ms, stamp, mid + 1, hi)
         IN  IF a = 0 THEN b
             ELSE IF b = 0 THEN a
             ELSE IF StrLess(SplitSuffix(ms[a].mission_code),
                             SplitSuffix(ms[b].mission_code)) THEN b
             ELSE a

\* Variant: the sequence taken from the number of rows of the day.
NextSequenceByCount(ms, stamp) ==
    Cardinality({i \in 1..Len(ms) : CodeLike(ms[i].mission_code, stamp)}) + 1

\* The sequence number generateMissionCode derives from the lookup's result.
NextSequence(ms, stamp) ==
    LET last == LastRowLike(ms, stamp, 1, Len(ms))
    IN  IF last = 0 THEN 1
        ELSE ParseInt(SplitSuffix(ms[last].mission_code)) + 1

\* Variant: the sequence number written without padding.
generateMissionCodeNoPad(ms, t, up, draw) ==
    IF up
    THEN MissionCode(DateStamp(t), ToString(NextSequence(ms, DateStamp(t))))
    ELSE MissionCode(DateStamp(t), ToString(draw))

\* generateMissionCode: the lookup when the store answers, else the random
\* fallback (draw = Math.floor(Math.random() * 1000)).
generateMissionCode(ms, t, up, draw) ==
    IF up
    THEN MissionCode(DateStamp(t), PadStart(ToString(NextSequence(ms, DateStamp(t))), PadWidth))
    ELSE MissionCode(DateStamp(t), PadStart(ToString(draw), PadWidth))

(***************************************************************************)
(* Rows and lookups.                                                       *)
(***************************************************************************)
Idle == [pc |-> "idle"]

\* The data field of a response whose body this model does not read.
NoData == [kind |-> "none"]

Respond(op, code) == resp' = [op |-> op, code |-> code] /\ data' = NoData

\* res.json({ success: true, data: d })
RespondData(op, code, d) == resp' = [op |-> op, code |-> code] /\ data' = d

\* Index of the missions row with the given id, 0 when there is none.
RowOf(ms, id) ==
    IF \E i \in 1..Len(ms) : ms[i].id = id
    THEN CHOOSE i \in 1..Len(ms) : ms[i].id = id
    ELSE 0

\* Variant: mission_code without its UNIQUE constraint.
CodeStoredNever(ms, code) == FALSE

\* The UNIQUE constraint on mission_code: the code is already stored.
CodeStored(ms, code) == \E i \in 1..Len(ms) : ms[i].mission_code = code

\* Variant: the validation forgets clientEmail.
RequiredPresentNoEmail(body) ==
    \A f \in RequiredFields \ {"clientEmail"} : ~Falsy(body[f])

\* The create handler's validation: every required field is truthy.
RequiredPresent(body) == \A f \in RequiredFields : ~Falsy(body[f])

\* The row INSERT INTO missions ... RETURNING * stores.
NewMission(id, code, body, t) ==
    [id |-> id, mission_code |-> code,
     vehicle_brand |-> body.vehicleBrand, vehicle_model |-> body.vehicleModel,
     pickup_location |-> body.pickupLocation,
     delivery_location |-> body.deliveryLocation,
     client_name |-> body.clientName, client_email |-> body.clientEmail,
     status |-> "pending", created_at |-> t, updated_at |-> t,
     started_at |-> NoTime, completed_at |-> NoTime,
     observations |-> body.observations,
     client_signature |-> NULL, signature_timestamp |-> NoTime]

\* Request bodies: the complete one, each with one required field missing,
\* and the empty one.
ValidBody ==
    [f \in RequiredFields \cup {"observations"} |->
        IF f = "observations" THEN NULL ELSE "x"]

Bodies ==
    {ValidBody, [f \in RequiredFields \cup {"observations"} |-> NULL]}
    \cup {[ValidBody EXCEPT ![f] = NULL] : f \in RequiredFields}

InflightCreates == Cardinality({r \in Requests : inflight[r].pc = "create_insert"})

(***************************************************************************)
(* POST /api/missions                                                      *)
(***************************************************************************)
\* Validation, then generateMissionCode (its SELECT is the first statement).
CreateBegin(r, body, up, draw, cap) ==
    /\ inflight[r].pc = "idle"
    /\ IF ~RequiredPresent(body)
       THEN /\ Respond("create", 400)
            /\ UNCHANGED inflight
       ELSE /\ missionSeq + InflightCreates < cap
            /\ inflight' = [inflight EXCEPT ![r] =
                   [pc |-> "create_insert",
                    code |-> generateMissionCode(missions, now, up, draw),
                    fallback |-> ~up,
                    body |-> body]]
            /\ UNCHANGED <<resp, data>>
    /\ UNCHANGED <<deployment, now, missions, missionSeq, photos, photoSeq,
                   inspections, inspSeq>>

\* Variant: a failed INSERT is answered like a stored mission.
CreateInsertSilent(r, up) ==
    /\ inflight[r].pc = "create_insert"
    /\ inflight' = [inflight EXCEPT ![r] = Idle]
    /\ IF ~up
       THEN /\ Respond("create", 201)
            /\ UNCHANGED <<missions, missionSeq>>
       ELSE /\ missionSeq' = missionSeq + 1
            /\ IF CodeStored(missions, inflight[r].code)
               THEN /\ Respond("create", 500)
                    /\ UNCHANGED missions
               ELSE /\ missions' = Append(missions,
                           NewMission(missionSeq + 1, inflight[r].code,
                                      inflight[r].body, now))
                    /\ Respond("create", 201)
    /\ UNCHANGED <<deployment, now, photos, photoSeq, inspections, inspSeq>>

\* Variant: a refused INSERT is tried again with a newly generated code.
CreateInsertRetrying(r, up) ==
    /\ inflight[r].pc = "create_insert"
    /\ inflight' = [inflight EXCEPT ![r] = Idle]
    /\ IF ~up
       THEN /\ Respond("create", 500)
            /\ UNCHANGED <<missions, missionSeq>>
       ELSE IF CodeStored(missions, inflight[r].code)
       THEN /\ missionSeq' = missionSeq + 2
            /\ missions' = Append(missions,
                    NewMission(missionSeq + 2,
                               generateMissionCode(missions, now, TRUE, 0),
                               inflight[r].body, now))
            /\ Respond("create", 201)
       ELSE /\ missionSeq' = missionSeq + 1
            /\ missions' = Append(missions,
                    NewMission(missionSeq + 1, inflight[r].code,
                               inflight[r].body, now))
            /\ Respond("create", 201)
    /\ UNCHANGED <<deployment, now, photos, photoSeq, inspections, inspSeq>>

\* The INSERT: mission_code is UNIQUE, id comes from the sequence.
CreateInsert(r, up) ==
    /\ inflight[r].pc = "create_insert"
    /\ inflight' = [inflight EXCEPT ![r] = Idle]
    /\ IF ~up
       THEN /\ Respond("create", 500)
            /\ UNCHANGED <<missions, missionSeq>>
       ELSE /\ missionSeq' = missionSeq + 1
            /\ IF CodeStored(missions, inflight[r].code)
               THEN /\ Respond("create", 500)
                    /\ UNCHANGED missions
               ELSE /\ missions' = Append(missions,
                           NewMission(missionSeq + 1, inflight[r].code,
                                      inflight[r].body, now))
                    /\ Respond("create", 201)
    /\ UNCHANGED <<deployment, now, photos, photoSeq, inspections, inspSeq>>

(***************************************************************************)
(* PUT /api/missions/:id/status                                            *)
(***************************************************************************)
\* Variant: starting a mission clears its completion time.
StatusUpdateClearing(m, status, t, d) ==
    [m EXCEPT !.status = status,
              !.updated_at = IF d = "full" THEN t ELSE @,
              !.started_at = IF status = "in_progress" THEN t ELSE @,
              !.completed_at = IF status = "completed" THEN t
                               ELSE IF status = "in_progress" THEN NoTime ELSE @]

\* Variant: a completed or cancelled mission keeps its status.
StatusUpdateTerminal(m, status, t, d) ==
    IF m.status \in {"completed", "cancelled"}
    THEN [m EXCEPT !.updated_at = IF d = "full" THEN t ELSE @]
    ELSE [m EXCEPT !.status = status,
                   !.updated_at = IF d = "full" THEN t ELSE @,
                   !.started_at = IF status = "in_progress" THEN t ELSE @,
                   !.completed_at = IF status = "completed" THEN t ELSE @]

\* Variant: the status is written without its timestamps.
StatusUpdateStatusOnly(m, status, t, d) ==
    [m EXCEPT !.status = status,
              !.updated_at = IF d = "full" THEN t ELSE @]

\* Variant: a cancelled mission keeps its status.
StatusUpdateCancelledKept(m, status, t, d) ==
    [m EXCEPT !.status = IF @ = "cancelled" THEN @ ELSE status,
              !.updated_at = IF d = "full" THEN t ELSE @,
              !.started_at = IF status = "in_progress" THEN t ELSE @,
              !.completed_at = IF status = "completed" THEN t ELSE @]

\* The SET clause of the status UPDATE, applied to the matching row.
StatusUpdate(m, status, t, d) ==
    [m EXCEPT !.status = status,
              !.updated_at = IF d = "full" THEN t ELSE @,
              !.started_at = IF status = "in_progress" THEN t ELSE @,
              !.completed_at = IF status = "completed" THEN t ELSE @]

SetStatus(id, status, up) ==
    /\ IF status \notin StatusList(deployment)
       THEN /\ Respond("setStatus", 400)
            /\ UNCHANGED missions
       ELSE IF ~up
       THEN /\ Respond("setStatus", 500)
            /\ UNCHANGED missions
       ELSE IF RowOf(missions, id) = 0
       THEN /\ Respond("setStatus", 404)
            /\ UNCHANGED missions
       ELSE /\ missions' = [missions EXCEPT ![RowOf(missions, id)] =
                                StatusUpdate(@, status, now, deployment)]
            /\ Respond("setStatus", 200)
    /\ UNCHANGED <<deployment, now, missionSeq, photos, photoSeq,
                   inspections, inspSeq, inflight>>

(***************************************************************************)
(* PUT /api/missions/:id/observations, POST /api/missions/:id/signature    *)
(***************************************************************************)
ObservationsUpdate(m, observations, t, d) ==
    [m EXCEPT !.observations = observations,
              !.updated_at = IF d = "full" THEN t ELSE @]

UpdateObservations(id, observations, up) ==
    /\ IF ~up
       THEN /\ Respond("updateObservations", 500)
            /\ UNCHANGED missions
       ELSE IF RowOf(missions, id) = 0
       THEN /\ Respond("updateObservations", 404)
            /\ UNCHANGED missions
       ELSE /\ missions' = [missions EXCEPT ![RowOf(missions, id)] =
                                ObservationsUpdate(@, observations, now, deployment)]
            /\ Respond("updateObservations", 200)
    /\ UNCHANGED <<deployment, now, missionSeq, photos, photoSeq,
                   inspections, inspSeq, inflight>>

SignatureUpdate(m, signature, t, d) ==
    [m EXCEPT !.client_signature = signature,
              !.signature_timestamp = t,
              !.updated_at = IF d = "full" THEN t ELSE @]

SetSignature(id, signature, up) ==
    /\ IF Falsy(signature)
       THEN /\ Respond("setSignature", 400)
            /\ UNCHANGED missions
       ELSE IF ~up
       THEN /\ Respond("setSignature", 500)
            /\ UNCHANGED missions
       ELSE IF RowOf(missions, id) = 0
       THEN /\ Respond("setSignature", 404)
            /\ UNCHANGED missions
       ELSE /\ missions' = [missions EXCEPT ![RowOf(missions, id)] =
                                SignatureUpdate(@, signature, now, deployment)]
            /\ Respond("setSignature", 200)
    /\ UNCHANGED <<deployment, now, missionSeq, photos, photoSeq,
                   inspections, inspSeq, inflight>>

(***************************************************************************)
(* POST /api/uploads/photos/:missionId                                     *)
(***************************************************************************)
NoFile == [name |-> NULL, size |-> 0, mimetype |-> NULL]

Files ==
    {NoFile,
     [name |-> "a.jpg", size |-> 1, mimetype |-> "image/jpeg"],
     [name |-> "b.png", size |-> 2, mimetype |-> "image/png"],
     [name |-> "c.gif", size |-> 3, mimetype |-> "image/gif"]}

PhotoTypes == {"front", "rear", NULL}

\* Variant: GIF images are let through.
allowedTypesWithGif == {"image/jpeg", "image/jpg", "image/png", "image/webp", "image/gif"}

allowedTypes == {"image/jpeg", "image/jpg", "image/png", "image/webp"}

\* `${Date.now()}_${photo.name}`
StoredFilename(t, name) == [stamp |-> t, name |-> name]

\* The placeholder locator: a fixed prefix and encodeURIComponent(photoType).
MockUrl(photoType) ==
    [text |-> IF photoType = NULL THEN "undefined" ELSE photoType]

\* Index of the photo row of (mission_id, photo_type), 0 when there is none.
PhotoOf(ps, missionId, photoType) ==
    IF \E i \in 1..Len(ps) : ps[i].mission_id = missionId /\ ps[i].photo_type = photoType
    THEN CHOOSE i \in 1..Len(ps) :
            ps[i].mission_id = missionId /\ ps[i].photo_type = photoType
    ELSE 0

\* Variant: a plain insert, with no conflict target.
PhotoInsertOnly(ps, id, missionId, photoType, file, t) ==
    Append(ps,
        [id |-> id, mission_id |-> missionId, photo_type |-> photoType,
         filename |-> StoredFilename(t, file.name),
         original_name |-> file.name, file_size |-> file.size,
         mime_type |-> file.mimetype,
         storage_url |-> MockUrl(photoType), uploaded_at |-> t])

\* INSERT INTO mission_photos ... ON CONFLICT (mission_id, photo_type) DO UPDATE
PhotoUpsert(ps, id, missionId, photoType, file, t) ==
    LET at == PhotoOf(ps, missionId, photoType)
    IN  IF at = 0
        THEN Append(ps,
                 [id |-> id, mission_id |-> missionId, photo_type |-> photoType,
                  filename |-> StoredFilename(t, file.name),
                  original_name |-> file.name, file_size |-> file.size,
                  mime_type |-> file.mimetype,
                  storage_url |-> MockUrl(photoType), uploaded_at |-> t])
        ELSE [ps EXCEPT ![at] =
                 [@ EXCEPT !.filename = StoredFilename(t, file.name),
                           !.original_name = file.name,
                           !.file_size = file.size,
                           !.mime_type = file.mimetype,
                           !.storage_url = MockUrl(photoType),
                           !.uploaded_at = t]]

InflightUploads == Cardinality({r \in Requests : inflight[r].pc = "upload_insert"})

\* Validation of the file, then SELECT id FROM missions WHERE id = $1.
UploadBegin(r, missionId, photoType, file, up, cap) ==
    /\ inflight[r].pc = "idle"
    /\ IF file = NoFile \/ file.mimetype \notin allowedTypes
       THEN /\ Respond("upload", 400)
            /\ UNCHANGED inflight
       ELSE IF ~up
       THEN /\ Respond("upload", 500)
            /\ UNCHANGED inflight
       ELSE IF RowOf(missions, missionId) = 0
       THEN /\ Respond("upload", 404)
            /\ UNCHANGED inflight
       ELSE /\ photoSeq + InflightUploads < cap
            /\ inflight' = [inflight EXCEPT ![r] =
                   [pc |-> "upload_insert", missionId |-> missionId,
                    photoType |-> photoType, file |-> file]]
            /\ UNCHANGED <<resp, data>>
    /\ UNCHANGED <<deployment, now, missions, missionSeq, photos, photoSeq,
                   inspections, inspSeq>>

\* The upsert; photo_type is NOT NULL, the id default is drawn before the check.
UploadInsert(r, up) ==
    /\ inflight[r].pc = "upload_insert"
    /\ inflight' = [inflight EXCEPT ![r] = Idle]
    /\ IF ~up
       THEN /\ Respond("upload", 500)
            /\ UNCHANGED <<photos, photoSeq>>
       ELSE /\ photoSeq' = photoSeq + 1
            /\ IF inflight[r].photoType = NULL
               THEN /\ Respond("upload", 500)
                    /\ UNCHANGED photos
               ELSE /\ photos' = PhotoUpsert(photos, photoSeq + 1,
                                     inflight[r].missionId, inflight[r].photoType,
                                     inflight[r].file, now)
                    /\ Respond("upload", 200)
    /\ UNCHANGED <<deployment, now, missions, missionSeq, inspections, inspSeq>>

(***************************************************************************)
(* POST /api/missions/:id/inspection (full server only)                    *)
(***************************************************************************)
NoCount == -1

\* Inspection payloads: a complete one, a second one, and the empty body.
Payloads ==
    {[observations |-> "o1", signature |-> "s1", checklist |-> "c1",
      keyCount |-> 2, optionalPhotos |-> 1],
     [observations |-> "o2", signature |-> NULL, checklist |-> NULL,
      keyCount |-> NoCount, optionalPhotos |-> 0],
     [observations |-> NULL, signature |-> NULL, checklist |-> NULL,
      keyCount |-> NoCount, optionalPhotos |-> NoCount]}

\* JSON.stringify(checklist); undefined stays undefined and is stored as NULL.
JSONStringify(c) ==
    CASE c = NULL -> NULL
      [] c = "c1" -> "{c1}"
      [] OTHER -> "{}"

InspectionOf(is, missionId) ==
    IF \E i \in 1..Len(is) : is[i].mission_id = missionId
    THEN CHOOSE i \in 1..Len(is) : is[i].mission_id = missionId
    ELSE 0

\* Variant: on conflict an omitted field keeps the value the row has.
InspectionUpsertMerge(is, id, missionId, payload, t) ==
    LET at == InspectionOf(is, missionId)
    IN  IF at = 0
        THEN Append(is,
                 [id |-> id, mission_id |-> missionId,
                  observations |-> payload.observations,
                  signature |-> payload.signature,
                  checklist |-> JSONStringify(payload.checklist),
                  key_count |-> payload.keyCount,
                  optional_photos_count |-> payload.optionalPhotos,
                  created_at |-> t, updated_at |-> t])
        ELSE [is EXCEPT ![at] =
                 [@ EXCEPT !.observations =
                               IF payload.observations = NULL THEN @ ELSE payload.observations,
                           !.signature =
                               IF payload.signature = NULL THEN @ ELSE payload.signature,
                           !.checklist =
                               IF payload.checklist = NULL THEN @
                               ELSE JSONStringify(payload.checklist),
                           !.key_count =
                               IF payload.keyCount = NoCount THEN @ ELSE payload.keyCount,
                           !.optional_photos_count =
                               IF payload.optionalPhotos = NoCount THEN @
                               ELSE payload.optionalPhotos,
                           !.updated_at = t]]

\* INSERT INTO inspections ... ON CONFLICT (mission_id) DO UPDATE
InspectionUpsert(is, id, missionId, payload, t) ==
    LET at == InspectionOf(is, missionId)
    IN  IF at = 0
        THEN Append(is,
                 [id |-> id, mission_id |-> missionId,
                  observations |-> payload.observations,
                  signature |-> payload.signature,
                  checklist |-> JSONStringify(payload.checklist),
                  key_count |-> payload.keyCount,
                  optional_photos_count |-> payload.optionalPhotos,
                  created_at |-> t, updated_at |-> t])
        ELSE [is EXCEPT ![at] =
                 [@ EXCEPT !.observations = payload.observations,
                           !.signature = payload.signature,
                           !.checklist = JSONStringify(payload.checklist),
                           !.key_count = payload.keyCount,
                           !.optional_photos_count = payload.optionalPhotos,
                           !.updated_at = t]]

\* Variant: an inspection completes the mission.
InspectionMissionUpdateCompleting(m, payload, t) ==
    [m EXCEPT !.observations = payload.observations,
              !.client_signature = payload.signature,
              !.status = "completed",
              !.completed_at = t,
              !.updated_at = t]

\* Variant: the mission row keeps its signature.
InspectionMissionUpdateNoSignature(m, payload, t) ==
    [m EXCEPT !.observations = payload.observations,
              !.updated_at = t]

\* UPDATE missions SET observations = $2, client_signature = $3, updated_at = ...
InspectionMissionUpdate(m, payload, t) ==
    [m EXCEPT !.observations = payload.observations,
              !.client_signature = payload.signature,
              !.updated_at = t]

InflightInspections == Cardinality({r \in Requests : inflight[r].pc = "inspection_update"})

\* First statement: the upsert into inspections.  mission_id REFERENCES
\* missions(id): an unknown mission makes the statement fail.
InspectionBegin(r, id, payload, up, cap) ==
    /\ deployment = "full"
    /\ inflight[r].pc = "idle"
    /\ IF ~up
       THEN /\ Respond("inspection", 500)
            /\ UNCHANGED <<inspections, inspSeq, inflight>>
       ELSE /\ inspSeq + InflightInspections < cap
            /\ inspSeq' = inspSeq + 1
            /\ IF RowOf(missions, id) = 0
               THEN /\ Respond("inspection", 500)
                    /\ UNCHANGED <<inspections, inflight>>
               ELSE /\ inspections' = InspectionUpsert(inspections, inspSeq + 1,
                                          id, payload, now)
                    /\ inflight' = [inflight EXCEPT ![r] =
                           [pc |-> "inspection_update", id |-> id,
                            payload |-> payload]]
                    /\ UNCHANGED <<resp, data>>
    /\ UNCHANGED <<deployment, now, missions, missionSeq, photos, photoSeq>>

\* Second statement: the UPDATE of the mission row, then the response.
InspectionUpdate(r, up) ==
    /\ inflight[r].pc = "inspection_update"
    /\ inflight' = [inflight EXCEPT ![r] = Idle]
    /\ IF ~up
       THEN /\ Respond("inspection", 500)
            /\ UNCHANGED missions
       ELSE /\ missions' =
                  IF RowOf(missions, inflight[r].id) = 0 THEN missions
                  ELSE [missions EXCEPT ![RowOf(missions, inflight[r].id)] =
                           InspectionMissionUpdate(@, inflight[r].payload, now)]
            /\ Respond("inspection", 200)
    /\ UNCHANGED <<deployment, now, missionSeq, photos, photoSeq,
                   inspections, inspSeq>>

(***************************************************************************)
(* GET /api/missions/:code                                                 *)
(***************************************************************************)
\* WHERE m.mission_code = $1 OR m.id::text = $1
TokenMatches(m, token) ==
    IF token.kind = "code" THEN m.mission_code = token.code ELSE m.id = token.id

Tokens ==
    {[kind |-> "id", id |-> i, code |-> MissionCode(0, <<>>)] : i \in 1..(MaxMissions + 1)}
    \cup {[kind |-> "code", id |-> 0, code |-> MissionCode(0, PadStart(ToString(n), PadWidth))] :
             n \in 1..2}

\* json_build_object('id', ..., 'type', ..., 'url', ..., 'filename', ..., 'uploaded_at', ...)
PhotoSummary(p) ==
    [id |-> p.id, type |-> p.photo_type, url |-> p.storage_url,
     filename |-> p.filename, uploaded_at |-> p.uploaded_at]

\* Variant: the photo rows of every mission are aggregated.
JsonAggAll(ps, missionId) ==
    LET idx == 1..Len(ps)
        n == Cardinality(idx)
    IN  IF idx = {} THEN {[null |-> TRUE]}
        ELSE {[null |-> FALSE, value |-> [k \in 1..n |-> PhotoSummary(ps[f[k]])]] :
                 f \in {g \in [1..n -> idx] :
                           /\ \A a, b \in 1..n : g[a] = g[b] => a = b
                           /\ \A a \in 1..(n - 1) :
                                 ps[g[a]].uploaded_at <= ps[g[a + 1]].uploaded_at}}

\* Variant: the rows are aggregated in insertion order.
JsonAggById(ps, missionId) ==
    LET idx == {i \in 1..Len(ps) : ps[i].mission_id = missionId}
        n == Cardinality(idx)
    IN  IF idx = {} THEN {[null |-> TRUE]}
        ELSE {[null |-> FALSE, value |-> [k \in 1..n |-> PhotoSummary(ps[f[k]])]] :
                 f \in {g \in [1..n -> idx] : \A a \in 1..(n - 1) : g[a] < g[a + 1]}}

\* json_agg(... ORDER BY mp.uploaded_at) FILTER (WHERE mp.id IS NOT NULL) over
\* the LEFT JOIN with mission_photos: SQL NULL when the mission has no photo
\* row, else the summaries by ascending upload time; rows of equal upload
\* time come in any order, so this is the set of the possible results.
JsonAgg(ps, missionId) ==
    LET idx == {i \in 1..Len(ps) : ps[i].mission_id = missionId}
        n == Cardinality(idx)
    IN  IF idx = {} THEN {[null |-> TRUE]}
        ELSE {[null |-> FALSE, value |-> [k \in 1..n |-> PhotoSummary(ps[f[k]])]] :
                 f \in {g \in [1..n -> idx] :
                           /\ \A a, b \in 1..n : g[a] = g[b] => a = b
                           /\ \A a \in 1..(n - 1) :
                                 ps[g[a]].uploaded_at <= ps[g[a + 1]].uploaded_at}}

\* COALESCE(agg, '[]'::json)
Coalesce(agg) == IF agg.null THEN <<>> ELSE agg.value

\* i.checklist, i.key_count, i.optional_photos_count of the LEFT JOIN with
\* inspections (full server); the minimal server selects no such columns.
InspectionColumns(is, missionId, d) ==
    IF d # "full" THEN [joined |-> FALSE]
    ELSE IF InspectionOf(is, missionId) = 0
    THEN [joined |-> TRUE, checklist |-> NULL, key_count |-> NoCount,
          optional_photos_count |-> NoCount]
    ELSE [joined |-> TRUE,
          checklist |-> is[InspectionOf(is, missionId)].checklist,
          key_count |-> is[InspectionOf(is, missionId)].key_count,
          optional_photos_count |-> is[InspectionOf(is, missionId)].optional_photos_count]

\* The possible rows of the aggregating SELECT for mission row m.
Aggregates(m) ==
    {[kind |-> "mission", mission |-> m,
      inspection |-> InspectionColumns(inspections, m.id, deployment),
      photos |-> Coalesce(agg)] : agg \in JsonAgg(photos, m.id)}

GetMission(token, up) ==
    /\ IF ~up
       THEN Respond("getMission", 500)
       ELSE IF \A i \in 1..Len(missions) : ~TokenMatches(missions[i], token)
       THEN Respond("getMission", 404)
       ELSE \E v \in Aggregates(missions[CHOOSE i \in 1..Len(missions) :
                                              TokenMatches(missions[i], token)]) :
               RespondData("getMission", 200, v)
    /\ UNCHANGED <<deployment, now, missions, missionSeq, photos, photoSeq,
                   inspections, inspSeq, inflight>>

(***************************************************************************)
(* GET /api/missions/search, and the dispatch of GET /api/missions/<seg>   *)
(***************************************************************************)
Limit == 100

\* Text as a sequence of characters, for the values this model uses.
CharsOf(s) ==
    CASE s = "x" -> <<"x">>
      [] s = "X" -> <<"X">>
      [] s = "fa" -> <<"f", "a">>
      [] OTHER -> <<>>

DigitChars(ds) == [k \in 1..Len(ds) |-> <<"0", "1", "2", "3", "4", "5", "6", "7", "8", "9">>[ds[k] + 1]]

\* The text of a mission code: FA-<date>-<suffix>.
CodeText(code) ==
    <<"F", "A", "-">> \o DigitChars(ToString(code.stamp)) \o <<"-">> \o DigitChars(code.suffix)

\* Case folding of ILIKE.
Lower(c) ==
    CASE c = "X" -> "x"
      [] c = "F" -> "f"
      [] c = "A" -> "a"
      [] OTHER -> c

\* text ILIKE '%' || needle || '%'
ILike(text, needle) ==
    \E i \in 0..(Len(text) - Len(needle)) :
       \A k \in 1..Len(needle) : Lower(text[i + k]) = Lower(needle[k])

\* The WHERE clause the handler builds: a falsy filter adds no condition.
SearchWhere(m, f) ==
    /\ Falsy(f.q) \/ \/ ILike(CodeText(m.mission_code), CharsOf(f.q))
                     \/ ILike(CharsOf(m.client_name), CharsOf(f.q))
                     \/ ILike(CharsOf(m.vehicle_brand), CharsOf(f.q))
                     \/ ILike(CharsOf(m.vehicle_model), CharsOf(f.q))
    /\ Falsy(f.status) \/ m.status = f.status
    /\ f.dateFrom = NoTime \/ m.created_at >= f.dateFrom
    /\ f.dateTo = NoTime \/ m.created_at <= f.dateTo
    /\ Falsy(f.vehicleBrand) \/ ILike(CharsOf(m.vehicle_brand), CharsOf(f.vehicleBrand))

\* ORDER BY created_at DESC LIMIT 100 over the rows of the WHERE clause: the
\* possible results, rows of equal creation time coming in any order.
SearchRows(ms, f) ==
    LET idx == {i \in 1..Len(ms) : SearchWhere(ms[i], f)}
        n == Cardinality(idx)
        k == IF n < Limit THEN n ELSE Limit
    IN  {[j \in 1..k |-> ms[g[j]]] :
            g \in {h \in [1..n -> idx] :
                      /\ \A a, b \in 1..n : h[a] = h[b] => a = b
                      /\ \A a \in 1..(n - 1) :
                            ms[h[a]].created_at >= ms[h[a + 1]].created_at}}

Search(f, up) ==
    /\ IF ~up
       THEN Respond("search", 500)
       ELSE \E rows \in SearchRows(missions, f) :
               RespondData("search", 200, [kind |-> "list", rows |-> rows])
    /\ UNCHANGED <<deployment, now, missions, missionSeq, photos, photoSeq,
                   inspections, inspSeq, inflight>>

\* The GET routes of three segments under /api/missions, in the order the
\* server registers them; the minimal server has no search route.
MissionGetRoutes(d) ==
    IF d = "full"
    THEN <<[segment |-> ":code", handler |-> "getMission"],
           [segment |-> "search", handler |-> "search"]>>
    ELSE <<[segment |-> ":code", handler |-> "getMission"]>>

\* A route matches a path segment if it is a parameter or the same word.
RouteMatches(route, seg) == route.segment = ":code" \/ route.segment = seg.word

\* The router runs the first registered route that matches; every handler
\* here answers the request itself.
Dispatch(d, seg) ==
    LET routes == MissionGetRoutes(d)
        first == CHOOSE i \in 1..Len(routes) :
                    /\ RouteMatches(routes[i], seg)
                    /\ \A j \in 1..(i - 1) : ~RouteMatches(routes[j], seg)
    IN  routes[first].handler

\* The last segment of the requested path: the word 'search', an id or a
\* code; as the route parameter it is the token of the single-mission query.
SearchSegment ==
    [word |-> "search", token |-> [kind |-> "word", id |-> 0, code |-> MissionCode(0, <<>>)]]

Segments == {SearchSegment} \cup {[word |-> "", token |-> t] : t \in Tokens}

\* The query strings tried: none, a text, a status, a status and a brand, dates.
NoFilter == [q |-> NULL, status |-> NULL, dateFrom |-> NoTime, dateTo |-> NoTime,
             vehicleBrand |-> NULL]

Filters ==
    {NoFilter,
     [NoFilter EXCEPT !.q = "fa"],
     [NoFilter EXCEPT !.status = "completed", !.vehicleBrand = "X"],
     [NoFilter EXCEPT !.dateFrom = 1],
     [NoFilter EXCEPT !.dateTo = 0]}

\* GET /api/missions/<seg>?<f>
GetMissionsPath(seg, f, up) ==
    IF Dispatch(deployment, seg) = "getMission"
    THEN GetMission(seg.token, up)
    ELSE Search(f, up)

(***************************************************************************)
(* GET /api/stats                                                          *)
(***************************************************************************)
\* The statuses the SELECT has a FILTER column for (both servers alike).
StatsColumns == {"pending", "in_progress", "completed", "cancelled"}

\* JSON values of the response: a string of digits, a number.
JsonString(s) == [type |-> "string", text |-> s]

JsonNumber(n) == [type |-> "number", value |-> n]

\* COUNT(*) [FILTER (WHERE status = s)]: a bigint, which the driver hands
\* over as its decimal string.
CountWhere(ms, S) ==
    JsonString(ToString(Cardinality({i \in 1..Len(ms) : ms[i].status \in S})))

\* The row of the SELECT.
StatsRow(ms) ==
    [kind |-> "stats",
     total |-> JsonString(ToString(Len(ms))),
     counts |-> [c \in StatsColumns |-> CountWhere(ms, {c})]]

\* The literal of the catch block.
DefaultStats ==
    [kind |-> "stats", total |-> JsonNumber(0),
     counts |-> [c \in StatsColumns |-> JsonNumber(0)]]

\* Variant: the failure of the store is passed on as a server error.
StatsPropagating(up) ==
    /\ IF up
       THEN RespondData("stats", 200, StatsRow(missions))
       ELSE Respond("stats", 500)
    /\ UNCHANGED <<deployment, now, missions, missionSeq, photos, photoSeq,
                   inspections, inspSeq, inflight>>

Stats(up) ==
    /\ IF up
       THEN RespondData("stats", 200, StatsRow(missions))
       ELSE RespondData("stats", 200, DefaultStats)
    /\ UNCHANGED <<deployment, now, missions, missionSeq, photos, photoSeq,
                   inspections, inspSeq, inflight>>

(***************************************************************************)
(* Environment: the clock.                                                 *)
(***************************************************************************)
Tick(cap) ==
    /\ now < cap
    /\ now' = now + 1
    /\ UNCHANGED <<deployment, missions, missionSeq, photos, photoSeq,
                   inspections, inspSeq, inflight, resp, data>>

\* The ids a request may name: those the sequence can have issued, and one more.
Ids(cap) == 1..(cap + 1)

Init ==
    /\ deployment \in Deployments
    /\ now = 0
    /\ missions = <<>>
    /\ missionSeq = 0
    /\ photos = <<>>
    /\ photoSeq = 0
    /\ inspections = <<>>
    /\ inspSeq = 0
    /\ inflight = [r \in Requests |-> Idle]
    /\ resp = [op |-> "none", code |-> 0]
    /\ data = NoData

(***************************************************************************)
(* Spec: every handler, one request at a time, within one clock instant.   *)
(***************************************************************************)
Next ==
    \/ \E r \in Solo, body \in Bodies, up \in BOOLEAN :
          CreateBegin(r, body, up, 0, MaxMissions)
    \/ \E r \in Solo, up \in BOOLEAN : CreateInsert(r, up)
    \/ \E id \in Ids(MaxMissions), status \in StatusInputs, up \in BOOLEAN :
          SetStatus(id, status, up)
    \/ \E id \in Ids(MaxMissions), o \in ObservationValues, up \in BOOLEAN :
          UpdateObservations(id, o, up)
    \/ \E id \in Ids(MaxMissions), s \in SignatureValues, up \in BOOLEAN :
          SetSignature(id, s, up)
    \/ \E r \in Solo, id \in Ids(MaxMissions), pt \in {"front"}, f \in Files, up \in BOOLEAN :
          UploadBegin(r, id, pt, f, up, MaxPhotoSeq)
    \/ \E r \in Solo, up \in BOOLEAN : UploadInsert(r, up)
    \/ \E r \in Solo, id \in Ids(MaxMissions), p \in Payloads, up \in BOOLEAN :
          InspectionBegin(r, id, p, up, MaxInspSeq)
    \/ \E r \in Solo, up \in BOOLEAN : InspectionUpdate(r, up)
    \/ \E token \in Tokens, up \in BOOLEAN : GetMission(token, up)

Spec == Init /\ [][Next]_vars

(***************************************************************************)
(* SpecStatus: creates and status changes while the clock runs.            *)
(***************************************************************************)
NextStatus ==
    \/ \E r \in Solo : CreateBegin(r, ValidBody, TRUE, 0, MaxStatusMissions)
    \/ \E r \in Solo : CreateInsert(r, TRUE)
    \/ \E id \in Ids(MaxStatusMissions), status \in StatusInputs, up \in BOOLEAN :
          SetStatus(id, status, up)
    \/ Tick(MaxStatusTime)

SpecStatus == Init /\ [][NextStatus]_vars

(***************************************************************************)
(* SpecCreate: concurrent creates, a store that may fail any statement,    *)
(* the random fallback, several days.                                      *)
(***************************************************************************)
NextCreate ==
    \/ \E r \in Requests, body \in Bodies, up \in BOOLEAN, draw \in 0..MaxDraw :
          CreateBegin(r, body, up, draw, MaxCreateMissions)
    \/ \E r \in Requests, up \in BOOLEAN : CreateInsert(r, up)
    \/ Tick(MaxCreateTime)

SpecCreate == Init /\ [][NextCreate]_vars

(***************************************************************************)
(* SpecSeq: creates one after the other on one day, the store available.   *)
(***************************************************************************)
InitSeq == Init /\ deployment = "full"

NextSeq ==
    \/ \E r \in Solo : CreateBegin(r, ValidBody, TRUE, 0, MaxSeqMissions)
    \/ \E r \in Solo : CreateInsert(r, TRUE)

SpecSeq == InitSeq /\ [][NextSeq]_vars

(***************************************************************************)
(* SpecPhotos: uploads for several missions while the clock runs.          *)
(***************************************************************************)
NextPhotos ==
    \/ \E r \in Solo : CreateBegin(r, ValidBody, TRUE, 0, MaxPhotoMissions)
    \/ \E r \in Solo : CreateInsert(r, TRUE)
    \/ \E r \in Solo, id \in Ids(MaxPhotoMissions), pt \in PhotoTypes, f \in Files,
          up \in BOOLEAN :
          UploadBegin(r, id, pt, f, up, MaxPhotoUploads)
    \/ \E r \in Solo, up \in BOOLEAN : UploadInsert(r, up)
    \/ Tick(MaxPhotoTime)

SpecPhotos == Init /\ [][NextPhotos]_vars

(***************************************************************************)
(* SpecView: missions with photos and inspections, read back through       *)
(* GET /api/missions/:code while the clock runs.                           *)
(***************************************************************************)
ViewFiles == {f \in Files : f.mimetype = "image/jpeg"}

ViewPayloads == {p \in Payloads : p.checklist # NULL}

NextView ==
    \/ \E r \in Solo : CreateBegin(r, ValidBody, TRUE, 0, MaxViewMissions)
    \/ \E r \in Solo : CreateInsert(r, TRUE)
    \/ \E r \in Solo, id \in 1..MaxViewMissions, pt \in {"front", "rear"}, f \in ViewFiles :
          UploadBegin(r, id, pt, f, TRUE, MaxViewUploads)
    \/ \E r \in Solo : UploadInsert(r, TRUE)
    \/ \E r \in Solo, id \in 1..MaxViewMissions, p \in ViewPayloads :
          InspectionBegin(r, id, p, TRUE, MaxViewInsp)
    \/ \E r \in Solo : InspectionUpdate(r, TRUE)
    \/ \E token \in Tokens, up \in BOOLEAN : GetMission(token, up)
    \/ Tick(MaxViewTime)

SpecView == Init /\ [][NextView]_vars

(***************************************************************************)
(* SpecInspect: the full server, inspections submitted one request at a    *)
(* time, several times per mission, the store failing any statement.       *)
(***************************************************************************)
NextInspect ==
    \/ \E r \in Solo : CreateBegin(r, ValidBody, TRUE, 0, MaxInspMissions)
    \/ \E r \in Solo : CreateInsert(r, TRUE)
    \/ \E r \in Solo, id \in Ids(MaxInspMissions), p \in Payloads, up \in BOOLEAN :
          InspectionBegin(r, id, p, up, MaxInspSubmits)
    \/ \E r \in Solo, up \in BOOLEAN : InspectionUpdate(r, up)
    \/ Tick(MaxInspTime)

SpecInspect == InitSeq /\ [][NextInspect]_vars

(***************************************************************************)
(* SpecInspectRace: the full server, the store always answering, two       *)
(* inspection requests for the same mission whose statements interleave.   *)
(***************************************************************************)
NextInspectRace ==
    \/ \E r \in Solo : CreateBegin(r, ValidBody, TRUE, 0, MaxRaceMissions)
    \/ \E r \in Solo : CreateInsert(r, TRUE)
    \/ \E r \in Requests, id \in 1..MaxRaceMissions, p \in Payloads :
          InspectionBegin(r, id, p, TRUE, MaxRaceSubmits)
    \/ \E r \in Requests : InspectionUpdate(r, TRUE)

SpecInspectRace == InitSeq /\ [][NextInspectRace]_vars

(***************************************************************************)
(* SpecStats: missions moved through the statuses, counted by the stats    *)
(* endpoint, with a store that may be unreachable.                         *)
(***************************************************************************)
NextStats ==
    \/ \E r \in Solo : CreateBegin(r, ValidBody, TRUE, 0, MaxStatsMissions)
    \/ \E r \in Solo : CreateInsert(r, TRUE)
    \/ \E id \in 1..MaxStatsMissions, status \in StatusInputs \ {NULL} :
          SetStatus(id, status, TRUE)
    \/ \E up \in BOOLEAN : Stats(up)

SpecStats == Init /\ [][NextStats]_vars

(***************************************************************************)
(* SpecSearch: the full server, missions created and completed while the   *)
(* clock runs, GET requests to /api/missions/<segment>.                    *)
(***************************************************************************)
NextSearch ==
    \/ \E r \in Solo : CreateBegin(r, ValidBody, TRUE, 0, MaxSearchMissions)
    \/ \E r \in Solo : CreateInsert(r, TRUE)
    \/ \E id \in 1..MaxSearchMissions : SetStatus(id, "completed", TRUE)
    \/ \E seg \in Segments, f \in Filters, up \in BOOLEAN : GetMissionsPath(seg, f, up)
    \/ Tick(MaxSearchTime)

SpecSearch == InitSeq /\ [][NextSearch]_vars

(***************************************************************************)
(* SpecFrame: every write and read operation, the store answering or not,  *)
(* on a mission that moves through the statuses while the clock runs.      *)
(***************************************************************************)
NextFrame ==
    \/ \E r \in Solo : CreateBegin(r, ValidBody, TRUE, 0, MaxFrameMissions)
    \/ \E r \in Solo : CreateInsert(r, TRUE)
    \/ \E id \in Ids(MaxFrameMissions), status \in StatusInputs, up \in BOOLEAN :
          SetStatus(id, status, up)
    \/ \E id \in Ids(MaxFrameMissions), o \in ObservationValues, up \in BOOLEAN :
          UpdateObservations(id, o, up)
    \/ \E id \in Ids(MaxFrameMissions), sg \in SignatureValues, up \in BOOLEAN :
          SetSignature(id, sg, up)
    \/ \E r \in Solo, id \in Ids(MaxFrameMissions), f \in ViewFiles, up \in BOOLEAN :
          UploadBegin(r, id, "front", f, up, MaxFrameUploads)
    \/ \E r \in Solo, up \in BOOLEAN : UploadInsert(r, up)
    \/ \E r \in Solo, id \in Ids(MaxFrameMissions), p \in ViewPayloads, up \in BOOLEAN :
          InspectionBegin(r, id, p, up, MaxFrameInsp)
    \/ \E r \in Solo, up \in BOOLEAN : InspectionUpdate(r, up)
    \/ \E seg \in Segments, up \in BOOLEAN : GetMissionsPath(seg, NoFilter, up)
    \/ \E up \in BOOLEAN : Stats(up)
    \/ Tick(MaxFrameTime)

SpecFrame == Init /\ [][NextFrame]_vars

(***************************************************************************)
(* Properties.                                                             *)
(***************************************************************************)
\* The recognized status values of a deployment, as the specification lists them.
RecognizedStatuses(d) ==
    IF d = "full"
    THEN {"pending", "assigned", "in_progress", "photos_taken", "completed", "cancelled"}
    ELSE {"pending", "in_progress", "completed", "cancelled"}

IsDigits(s) == \A k \in 1..Len(s) : s[k] \in 0..9

StoredCodes == {missions[i].mission_code : i \in 1..Len(missions)}

Known(id) == \E i \in 1..Len(missions) : missions[i].id = id

\* No table is written by the step.
NoWrite ==
    /\ missions' = missions
    /\ photos' = photos
    /\ inspections' = inspections

\* C1 (as stated): under sequential successful creates with the store
\* available, for any number of missions of one date, every stored
\* mission_code has a three-digit sequence and no two stored codes are equal.
C1_ThreeDigitsAndUnique ==
    /\ \A i \in 1..Len(missions) :
          /\ Len(SplitSuffix(missions[i].mission_code)) = 3
          /\ IsDigits(SplitSuffix(missions[i].mission_code))
    /\ Cardinality(StoredCodes) = Len(missions)

\* C1 (amended): under sequential successful creates with the store available,
\* no two stored codes are equal, and the code of the k-th mission of a date
\* has a three-digit sequence for k up to 999; the 1000th has four digits.
C1_ThreeDigitsUpTo999 ==
    /\ \A i \in 1..Len(missions) :
          /\ IsDigits(SplitSuffix(missions[i].mission_code))
          /\ Len(SplitSuffix(missions[i].mission_code)) = (IF i < 1000 THEN 3 ELSE 4)
    /\ Cardinality(StoredCodes) = Len(missions)

\* C1 witness: the 999th mission of the day has just been created as ...-999.
C1_Witness ==
    /\ Len(missions) = 999
    /\ resp = [op |-> "create", code |-> 201]
    /\ SplitSuffix(missions[999].mission_code) = <<9, 9, 9>>

\* The sequence numbers in use among the stored codes of a date.
UsedSequences(stamp) ==
    {ParseInt(SplitSuffix(missions[i].mission_code)) :
        i \in {j \in 1..Len(missions) : missions[j].mission_code.stamp = stamp}}

\* A step in which request r's lookup answered and produced its code.
LookedUp(r) ==
    /\ inflight[r].pc = "idle"
    /\ inflight'[r].pc = "create_insert"
    /\ ~inflight'[r].fallback

\* C2 (as stated): the sequence number a create generates is the smallest
\* positive integer that no stored code of the same date uses.
C2_SmallestUnused ==
    [][\A r \in Requests :
          LookedUp(r) =>
             LET used == UsedSequences(inflight'[r].code.stamp)
                 n == ParseInt(SplitSuffix(inflight'[r].code))
             IN  /\ n >= 1
                 /\ n \notin used
                 /\ \A k \in 1..(n - 1) : k \in used]_vars

\* C2 (amended): the sequence number a create generates is one more than the
\* number in the stored code of the same date that is greatest in string
\* order, and 1 when no code of that date is stored.
C2_OneAboveGreatest ==
    [][\A r \in Requests :
          LookedUp(r) =>
             LET stamp == inflight'[r].code.stamp
                 same == {i \in 1..Len(missions) : missions[i].mission_code.stamp = stamp}
                 n == ParseInt(SplitSuffix(inflight'[r].code))
             IN  IF same = {} THEN n = 1
                 ELSE \E i \in same :
                         /\ \A j \in same :
                               ~StrLess(SplitSuffix(missions[i].mission_code),
                                        SplitSuffix(missions[j].mission_code))
                         /\ n = ParseInt(SplitSuffix(missions[i].mission_code)) + 1]_vars

\* C2 witness: the only stored code of the day is ...-002, stored by a create
\* that used the fallback, and a create whose lookup answered holds ...-003.
C2_Witness ==
    /\ Len(missions) = 1
    /\ SplitSuffix(missions[1].mission_code) = <<0, 0, 2>>
    /\ \E r \in Requests :
          /\ inflight[r].pc = "create_insert"
          /\ ~inflight[r].fallback
          /\ inflight[r].code.stamp = missions[1].mission_code.stamp
          /\ SplitSuffix(inflight[r].code) = <<0, 0, 3>>

AllSixPresent(body) == \A f \in RequiredFields : body[f] # NULL

C4_StatusRecognized ==
    \A i \in 1..Len(missions) : missions[i].status \in RecognizedStatuses(deployment)

\* C4 witness: a mission with a photo and an inspection has left 'pending'.
C4_Witness ==
    /\ Len(photos) > 0
    /\ Len(inspections) > 0
    /\ \E i \in 1..Len(missions) :
          /\ missions[i].status = "cancelled"
          /\ missions[i].client_signature # NULL

\* C5: setStatus with a status outside the recognized set responds 400 and
\* writes nothing, whether or not the mission exists or the store answers.
C5_InvalidStatusRejected ==
    [][\A id \in Ids(MaxStatusMissions),
          status \in StatusInputs \ RecognizedStatuses(deployment), up \in BOOLEAN :
          SetStatus(id, status, up) =>
             /\ resp' = [op |-> "setStatus", code |-> 400]
             /\ NoWrite]_vars

\* C5 witness: an invalid status has been refused while two missions are
\* stored, one of them no longer 'pending'.
C5_Witness ==
    /\ resp = [op |-> "setStatus", code |-> 400]
    /\ Len(missions) = 2
    /\ \E i \in 1..Len(missions) : missions[i].status = "completed"

\* C6: a successful setStatus sets started_at to the current time exactly for
\* 'in_progress' and completed_at exactly for 'completed'; the other timestamp
\* keeps its value.
C6_StatusTimestamps ==
    [][resp'.code = 200 =>
       \A id \in Ids(MaxStatusMissions), status \in StatusInputs, up \in BOOLEAN :
          SetStatus(id, status, up) =>
             \A i \in 1..Len(missions) :
                missions[i].id = id =>
                   /\ missions'[i].started_at =
                         (IF status = "in_progress" THEN now ELSE missions[i].started_at)
                   /\ missions'[i].completed_at =
                         (IF status = "completed" THEN now ELSE missions[i].completed_at)]_vars

\* C6 witness: a mission completed earlier is 'in_progress' again, started
\* now, its completion time still set.
C6_Witness ==
    /\ resp = [op |-> "setStatus", code |-> 200]
    /\ \E i \in 1..Len(missions) :
          /\ missions[i].status = "in_progress"
          /\ missions[i].started_at = now
          /\ missions[i].completed_at # NoTime
          /\ missions[i].completed_at < now

\* C7: every successful setStatus sets the mission's updated_at to the
\* current time, in both deployments.
C7_UpdatedAtRefreshed ==
    [][resp'.code = 200 =>
       \A id \in Ids(MaxStatusMissions), status \in StatusInputs, up \in BOOLEAN :
          SetStatus(id, status, up) =>
             \A i \in 1..Len(missions) :
                missions[i].id = id => missions'[i].updated_at = now]_vars

\* C8: for an existing mission and a recognized status b, setStatus succeeds
\* (the store answering) and leaves the mission with status b, whatever its
\* status was.
C8_Permissive ==
    [][\A id \in {k \in Ids(MaxStatusMissions) : Known(k)},
          b \in RecognizedStatuses(deployment) :
          SetStatus(id, b, TRUE) =>
             /\ resp' = [op |-> "setStatus", code |-> 200]
             /\ \A i \in 1..Len(missions) :
                   missions[i].id = id => missions'[i].status = b]_vars

\* C8 witness: a mission that was completed is 'pending' again.
C8_Witness ==
    /\ resp = [op |-> "setStatus", code |-> 200]
    /\ \E i \in 1..Len(missions) :
          /\ missions[i].status = "pending"
          /\ missions[i].completed_at # NoTime

\* The step answers 404 and writes no table.
NotFoundNoWrite == resp'.code = 404 /\ NoWrite

\* C9: every operation that targets a mission, given valid input and an id or
\* code that no mission has, responds 404 and writes no table.
C9_UnknownMissionNotFound ==
    [][/\ \A id \in Ids(MaxMissions), status \in StatusInputs :
             (SetStatus(id, status, TRUE) /\ ~Known(id)
                 /\ status \in RecognizedStatuses(deployment)) => NotFoundNoWrite
       /\ \A id \in Ids(MaxMissions), o \in ObservationValues :
             (UpdateObservations(id, o, TRUE) /\ ~Known(id)) => NotFoundNoWrite
       /\ \A id \in Ids(MaxMissions), g \in SignatureValues :
             (SetSignature(id, g, TRUE) /\ ~Known(id) /\ g # NULL) => NotFoundNoWrite
       /\ \A r \in Solo, id \in Ids(MaxMissions), f \in Files :
             (UploadBegin(r, id, "front", f, TRUE, MaxPhotoSeq) /\ ~Known(id)
                 /\ f.mimetype \in {"image/jpeg", "image/png", "image/webp"}) => NotFoundNoWrite
       /\ \A r \in Solo, id \in Ids(MaxMissions), p \in Payloads :
             (InspectionBegin(r, id, p, TRUE, MaxInspSeq) /\ ~Known(id)) => NotFoundNoWrite
       /\ \A token \in Tokens :
             (GetMission(token, TRUE)
                 /\ ~Known(token.id) /\ token.code \notin StoredCodes) => NotFoundNoWrite]_vars

\* After the step no two photo rows share (mission_id, photo_type).
PhotoKeysUnique ==
    \A i, j \in 1..Len(photos') :
       (photos'[i].mission_id = photos'[j].mission_id
           /\ photos'[i].photo_type = photos'[j].photo_type) => i = j

\* C10: there is at most one photo row per (mission_id, photo_type); an upload
\* of a type the mission already has adds no row and replaces that row's
\* filename, original name, size, MIME type, locator and upload time.
C10_PhotoUpsert ==
    [][/\ PhotoKeysUnique
       /\ \A r \in Solo :
             (UploadInsert(r, TRUE) /\ resp'.code = 200) =>
                \A i \in 1..Len(photos) :
                   (photos[i].mission_id = inflight[r].missionId
                       /\ photos[i].photo_type = inflight[r].photoType) =>
                      /\ Len(photos') = Len(photos)
                      /\ photos'[i] =
                            [id |-> photos[i].id,
                             mission_id |-> photos[i].mission_id,
                             photo_type |-> photos[i].photo_type,
                             filename |-> [stamp |-> now, name |-> inflight[r].file.name],
                             original_name |-> inflight[r].file.name,
                             file_size |-> inflight[r].file.size,
                             mime_type |-> inflight[r].file.mimetype,
                             storage_url |-> [text |-> inflight[r].photoType],
                             uploaded_at |-> now]
                      /\ \A j \in 1..Len(photos) : j # i => photos'[j] = photos[j]]_vars

\* C10 witness: the single photo row of a mission, first uploaded as a.jpg,
\* now holds the later upload b.png under its first id.
C10_Witness ==
    /\ resp = [op |-> "upload", code |-> 200]
    /\ photoSeq = 2
    /\ Len(photos) = 1
    /\ photos[1].id = 1
    /\ photos[1].original_name = "b.png"
    /\ photos[1].uploaded_at = now
    /\ now > 0

\* JPEG (under either of its names), PNG and WEBP.
AcceptedMime == {"image/jpeg", "image/jpg", "image/png", "image/webp"}

\* C11: an upload with no file or with a MIME type outside JPEG/PNG/WEBP
\* responds 400 whether or not the store would answer, issues no statement
\* and writes nothing; every stored photo row has an accepted MIME type.
C11_BadUploadRejected ==
    [][/\ \/ /\ resp' = [op |-> "upload", code |-> 400]
             /\ inflight' = inflight
             /\ photoSeq' = photoSeq
             /\ NoWrite
          \/ \A r \in Solo, id \in Ids(MaxPhotoMissions), pt \in PhotoTypes,
                f \in {g \in Files : g = NoFile \/ g.mimetype \notin AcceptedMime},
                up \in BOOLEAN :
                ~UploadBegin(r, id, pt, f, up, MaxPhotoUploads)
       /\ \A i \in 1..Len(photos') : photos'[i].mime_type \in AcceptedMime]_vars

\* C11 witness: a photo is stored and a later upload has been refused.
C11_Witness ==
    /\ resp = [op |-> "upload", code |-> 400]
    /\ Len(photos) > 0
    /\ photos[1].mime_type = "image/png"

\* C12: the photos field of a successful single-mission read is a sequence
\* with exactly one summary per photo row of that mission, in ascending
\* upload-time order; it is the empty sequence when the mission has no photo.
C12_PhotosView ==
    [][resp' = [op |-> "getMission", code |-> 200] =>
       \A token \in Tokens :
          GetMission(token, TRUE) =>
             LET m == data'.mission
                 rows == {i \in 1..Len(photos) : photos[i].mission_id = m.id}
                 view == data'.photos
             IN  /\ DOMAIN view = 1..Cardinality(rows)
                 /\ \A i \in rows :
                       Cardinality({k \in DOMAIN view :
                          /\ view[k].id = photos[i].id
                          /\ view[k].type = photos[i].photo_type
                          /\ view[k].url = photos[i].storage_url
                          /\ view[k].filename = photos[i].filename
                          /\ view[k].uploaded_at = photos[i].uploaded_at}) = 1
                 /\ \A k \in 1..(Cardinality(rows) - 1) :
                       view[k].uploaded_at <= view[k + 1].uploaded_at
                 /\ \E i \in 1..Len(missions) :
                       missions[i] = m /\ TokenMatches(m, token)]_vars

\* C12 witness: a mission's first photo row was uploaded again after its
\* second, and the view lists it last.
C12_Witness ==
    /\ resp = [op |-> "getMission", code |-> 200]
    /\ Len(data.photos) = 2
    /\ data.photos[1].id = 2
    /\ data.photos[2].id = 1
    /\ data.photos[1].uploaded_at < data.photos[2].uploaded_at

\* C13: right after a successful submit-inspection for mission M, M's
\* observations and client_signature are those of the payload, and so are
\* the observations and signature of M's inspection row.
C13_InspectionSyncsMission ==
    [][resp' = [op |-> "inspection", code |-> 200] =>
       \A r \in Solo :
          InspectionUpdate(r, TRUE) =>
             LET p == inflight[r].payload
                 id == inflight[r].id
             IN  /\ \E i \in 1..Len(missions') :
                       /\ missions'[i].id = id
                       /\ missions'[i].observations = p.observations
                       /\ missions'[i].client_signature = p.signature
                 /\ \E j \in 1..Len(inspections') :
                       /\ inspections'[j].mission_id = id
                       /\ inspections'[j].observations = p.observations
                       /\ inspections'[j].signature = p.signature]_vars

\* C13 witness: a second submission, without signature, has been answered:
\* the mission and its inspection row hold "o2" and no signature.
C13_Witness ==
    /\ resp = [op |-> "inspection", code |-> 200]
    /\ inspSeq >= 2
    /\ Len(inspections) = 1
    /\ inspections[1].created_at < inspections[1].updated_at
    /\ inspections[1].observations = "o2"
    /\ inspections[1].signature = NULL
    /\ \E i \in 1..Len(missions) :
          /\ missions[i].id = inspections[1].mission_id
          /\ missions[i].observations = "o2"
          /\ missions[i].client_signature = NULL

\* C14: no two inspection rows share a mission; the upsert leaves the
\* mission's row with exactly the observations, signature, checklist, key
\* count and optional-photo count of the submitted payload, omitted fields
\* included, and no other step changes an inspection row.
C14_InspectionReplaced ==
    [][/\ \A i, j \in 1..Len(inspections') :
             inspections'[i].mission_id = inspections'[j].mission_id => i = j
       /\ IF \E r \in Solo : inflight[r].pc = "idle" /\ inflight'[r].pc = "inspection_update"
          THEN \A r \in Solo, id \in Ids(MaxInspMissions), p \in Payloads :
                  InspectionBegin(r, id, p, TRUE, MaxInspSubmits) =>
                     /\ \E j \in 1..Len(inspections') :
                           /\ inspections'[j].mission_id = id
                           /\ inspections'[j].observations = p.observations
                           /\ inspections'[j].signature = p.signature
                           /\ inspections'[j].checklist = JSONStringify(p.checklist)
                           /\ inspections'[j].key_count = p.keyCount
                           /\ inspections'[j].optional_photos_count = p.optionalPhotos
                     /\ \A j \in 1..Len(inspections) :
                           inspections[j].mission_id # id => inspections'[j] = inspections[j]
          ELSE inspections' = inspections]_vars

\* C14 witness: the mission still carries the signature of an earlier, full
\* submission while its inspection row already holds a resubmission that
\* omitted signature, checklist and key count.
C14_Witness ==
    /\ inflight["r1"].pc = "inspection_update"
    /\ inflight["r1"].payload.keyCount = NoCount
    /\ Len(inspections) = 1
    /\ inspections[1].mission_id = inflight["r1"].id
    /\ inspections[1].key_count = NoCount
    /\ inspections[1].signature = NULL
    /\ inspections[1].checklist = NULL
    /\ \E i \in 1..Len(missions) :
          /\ missions[i].id = inspections[1].mission_id
          /\ missions[i].client_signature = "s1"

\* The number a JSON value of a stats response stands for.
NumberOf(v) == IF v.type = "string" THEN ParseInt(v.text) ELSE v.value

RECURSIVE SumOver(_, _)
\* The sum of the counts f[c], read as numbers, over the columns in S.
SumOver(f, S) ==
    IF S = {} THEN 0
    ELSE LET c == CHOOSE x \in S : TRUE
         IN  NumberOf(f[c]) + SumOver(f, S \ {c})

\* C15: with the store reachable, the stats response holds, for every
\* recognized status of the deployment, the number of missions in that
\* status, and its per-status counts add up to its total.
C15_StatsPerStatus ==
    [][Stats(TRUE) =>
          /\ \A st \in RecognizedStatuses(deployment) :
                /\ st \in DOMAIN data'.counts
                /\ NumberOf(data'.counts[st]) =
                      Cardinality({i \in 1..Len(missions) : missions[i].status = st})
          /\ SumOver(data'.counts, DOMAIN data'.counts) = NumberOf(data'.total)]_vars

\* C16: with the store unreachable, the stats request is answered 200 with
\* total, pending, in_progress, completed and cancelled all 0.
C16_StatsDegrade ==
    [][Stats(FALSE) =>
          /\ resp' = [op |-> "stats", code |-> 200]
          /\ data'.total = [type |-> "number", value |-> 0]
          /\ \A c \in {"pending", "in_progress", "completed", "cancelled"} :
                /\ c \in DOMAIN data'.counts
                /\ data'.counts[c] = [type |-> "number", value |-> 0]
          /\ NoWrite]_vars

\* C16 witness: the zeroed answer has been given while missions are stored.
C16_Witness ==
    /\ resp = [op |-> "stats", code |-> 200]
    /\ data.total = [type |-> "number", value |-> 0]
    /\ Len(missions) = 2

\* The step answers 500 and writes no table.
ServerErrorNoWrite == resp'.code = 500 /\ NoWrite

\* C17: a step ends in 500 with nothing written, or else it is no statement
\* of a write operation that the store left unanswered (setStatus with a
\* recognized status, updateObservations, setSignature with a signature,
\* upload with a valid file, submit inspection, the insert of create); the
\* lookup of create, unanswered, reports nothing and goes on to the insert.
C17_WritesFailLoudly ==
    [][/\ ServerErrorNoWrite \/
          /\ resp'.op = "setStatus" =>
                \A id \in Ids(MaxMissions), status \in RecognizedStatuses(deployment) :
                   ~SetStatus(id, status, FALSE)
          /\ resp'.op = "updateObservations" =>
                \A id \in Ids(MaxMissions), o \in ObservationValues :
                   ~UpdateObservations(id, o, FALSE)
          /\ resp'.op = "setSignature" =>
                \A id \in Ids(MaxMissions), g \in SignatureValues \ {NULL} :
                   ~SetSignature(id, g, FALSE)
          /\ resp'.op = "upload" =>
                /\ \A r \in Solo, id \in Ids(MaxMissions),
                      f \in {g \in Files : g # NoFile /\ g.mimetype \in AcceptedMime} :
                      ~UploadBegin(r, id, "front", f, FALSE, MaxPhotoSeq)
                /\ \A r \in Solo : ~UploadInsert(r, FALSE)
          /\ resp'.op = "inspection" =>
                /\ \A r \in Solo, id \in Ids(MaxMissions), p \in Payloads :
                      ~InspectionBegin(r, id, p, FALSE, MaxInspSeq)
                /\ \A r \in Solo : ~InspectionUpdate(r, FALSE)
          /\ resp'.op = "create" =>
                \A r \in Solo : ~CreateInsert(r, FALSE)
       /\ inflight' # inflight =>
             \A r \in Solo :
                CreateBegin(r, ValidBody, FALSE, 0, MaxMissions) =>
                   /\ inflight'[r].pc = "create_insert"
                   /\ resp' = resp
                   /\ NoWrite]_vars

\* C17 witness: a create has ended in 500 with the store still empty and
\* its id sequence untouched.
C17_Witness ==
    /\ resp = [op |-> "create", code |-> 500]
    /\ missions = <<>>
    /\ missionSeq = 0


\* C19: a GET request to /api/missions/search is handled by the search
\* handler and answered with the search result list, not by the route
\* GET /api/missions/:code with code = 'search'.
C19_SearchDispatched ==
    [][\A f \in Filters :
         GetMissionsPath(SearchSegment, f, TRUE)
            => /\ resp' = [op |-> "search", code |-> 200]
               /\ data'.kind = "list"]_vars

\* C18: search returns exactly the missions that satisfy every supplied
\* filter, ordered by creation time descending and truncated to the 100 most
\* recently created ones.
C18_SearchExact ==
    [][\A f \in Filters :
         GetMissionsPath(SearchSegment, f, TRUE)
            => /\ resp' = [op |-> "search", code |-> 200]
               /\ data'.kind = "list"
               /\ LET rows == data'.rows
                      match == {i \in 1..Len(missions) : SearchWhere(missions[i], f)}
                      n == Cardinality(match)
                  IN  /\ Len(rows) = IF n < 100 THEN n ELSE 100
                      /\ \A k \in 1..Len(rows) : \E i \in match : rows[k] = missions[i]
                      /\ \A a, b \in 1..Len(rows) : rows[a] = rows[b] => a = b
                      /\ \A a \in 1..(Len(rows) - 1) :
                            rows[a].created_at >= rows[a + 1].created_at
                      /\ \A i \in match :
                            \/ \E k \in 1..Len(rows) : rows[k] = missions[i]
                            \/ \A k \in 1..Len(rows) :
                                  rows[k].created_at >= missions[i].created_at]_vars

\* C20: whatever the interleaving of concurrent creates (each a code lookup
\* followed by a separate insert), no two stored missions have the same
\* mission_code.
C20_CodesUnique ==
    \A i, j \in 1..Len(missions) :
       missions[i].mission_code = missions[j].mission_code => i = j

\* Two creates drew the same code; one is stored, the other was refused by
\* the insert.
C20_Witness ==
    /\ Len(missions) >= 1
    /\ missionSeq > Len(missions)
    /\ resp = [op |-> "create", code |-> 500]

\* C21: cancelled is a terminal status: once a mission's status is
\* 'cancelled', no later operation changes its status.
C21_CancelledTerminal ==
    [][\A i \in 1..Len(missions) :
         missions[i].status = "cancelled" => missions'[i].status = "cancelled"]_vars

\* C21, as the code has it: setStatus with any recognized status succeeds on
\* a cancelled mission and overwrites its status, and nothing but a
\* successful setStatus changes the status of a cancelled mission.
C21_CancelledOverwritable ==
    [][\A i \in 1..Len(missions) :
         missions[i].status = "cancelled" =>
            /\ missions'[i].status # "cancelled"
                  => resp' = [op |-> "setStatus", code |-> 200]
            /\ \A b \in RecognizedStatuses(deployment) :
                  SetStatus(missions[i].id, b, TRUE)
                     => /\ resp' = [op |-> "setStatus", code |-> 200]
                        /\ missions'[i].status = b]_vars

\* C21 witness: a mission is cancelled and a setStatus request can take it
\* back to 'pending'.
C21_Witness ==
    \E i \in 1..Len(missions) :
       /\ missions[i].status = "cancelled"
       /\ resp = [op |-> "setStatus", code |-> 200]
       /\ ENABLED (SetStatus(missions[i].id, "pending", TRUE)
                     /\ missions'[i].status = "pending")

\* Both requests have run their lookups, which answered, hold the same code,
\* and neither has inserted.
BothLookedUpSame ==
    /\ \A r \in Requests : inflight[r].pc = "create_insert" /\ ~inflight[r].fallback
    /\ inflight["r1"].code = inflight["r2"].code
    /\ inflight["r1"].code \notin StoredCodes

\* C22: when two concurrent creates with valid input have both looked up
\* the same code before either insert, the first insert stores its mission
\* and the second is refused: it answers 500, stores nothing and is over,
\* without a new lookup.  (That the interleaving exists is C22_Witness.)
C22_RaceLoserFails ==
    [][\A r \in Requests :
         /\ (BothLookedUpSame /\ CreateInsert(r, TRUE))
               => /\ resp' = [op |-> "create", code |-> 201]
                  /\ Len(missions') = Len(missions) + 1
                  /\ missions'[Len(missions')].mission_code = inflight[r].code
         /\ ( /\ inflight[r].pc = "create_insert"
              /\ ~inflight[r].fallback
              /\ inflight[r].code \in StoredCodes
              /\ CreateInsert(r, TRUE))
               => /\ resp' = [op |-> "create", code |-> 500]
                  /\ missions' = missions
                  /\ inflight'[r] = Idle]_vars

\* C22 witness: one create of the race has stored the code, the other still
\* holds the same looked-up code, and its insert can only answer 500 and
\* store nothing.
C22_Witness ==
    /\ Len(missions) = 1
    /\ resp = [op |-> "create", code |-> 201]
    /\ inflight["r1"] = Idle
    /\ inflight["r2"].pc = "create_insert"
    /\ ~inflight["r2"].fallback
    /\ inflight["r2"].code = missions[1].mission_code
    /\ ENABLED (CreateInsert("r2", TRUE) /\ resp'.code = 500 /\ missions' = missions)
    /\ ~ENABLED (CreateInsert("r2", TRUE) /\ resp'.code # 500)

\* The mission row and its inspection row carry the same observations and
\* signature, for every mission that has an inspection row.
InspectionInSync ==
    \A i \in 1..Len(missions), j \in 1..Len(inspections) :
       inspections[j].mission_id = missions[i].id
          => /\ missions[i].observations = inspections[j].observations
             /\ missions[i].client_signature = inspections[j].signature

\* C23: once concurrent inspection requests for the same mission have all
\* completed, whatever the interleaving of their statements (upsert, then
\* mission update), the mission's observations and client_signature equal
\* those of its stored inspection row.
C23_ConcurrentInspectionsInSync ==
    (\A r \in Requests : inflight[r].pc = "idle") => InspectionInSync

\* C24: a submit-inspection that answers with an error leaves the
\* inspections table and the mission row unchanged: the upsert and the
\* mission update take effect together or not at all, also when the store
\* fails between the two statements.  With one request at a time and no
\* other writer of these fields, the two rows then agree whenever a request
\* has ended in an error.
C24_InspectionAllOrNothing ==
    ( /\ resp = [op |-> "inspection", code |-> 500]
      /\ \A r \in Requests : inflight[r].pc = "idle" )
       => \A i \in 1..Len(missions) :
             IF InspectionOf(inspections, missions[i].id) = 0
             THEN /\ missions[i].observations = NULL
                  /\ missions[i].client_signature = NULL
             ELSE LET row == inspections[InspectionOf(inspections, missions[i].id)]
                  IN  /\ missions[i].observations = row.observations
                      /\ missions[i].client_signature = row.signature

\* C25: in every reachable state a 'completed' mission has completed_at set
\* and an 'in_progress' mission has started_at set; a mission never set to
\* 'in_progress' has started_at unset and one never set to 'completed' has
\* completed_at unset: a new mission has both unset, and each is written
\* only by the step that sets the corresponding status.
C25_TimestampsFollowStatus ==
    /\ [](\A i \in 1..Len(missions) :
            /\ missions[i].status = "completed" => missions[i].completed_at # NoTime
            /\ missions[i].status = "in_progress" => missions[i].started_at # NoTime)
    /\ [][/\ \A i \in (Len(missions) + 1)..Len(missions') :
              /\ missions'[i].started_at = NoTime
              /\ missions'[i].completed_at = NoTime
          /\ \A i \in 1..Len(missions) :
              /\ missions'[i].started_at # missions[i].started_at
                    => /\ resp' = [op |-> "setStatus", code |-> 200]
                       /\ missions'[i].status = "in_progress"
              /\ missions'[i].completed_at # missions[i].completed_at
                    => /\ resp' = [op |-> "setStatus", code |-> 200]
                       /\ missions'[i].status = "completed"]_vars

\* C25 witness: a mission was completed without ever being started.
C25_Witness ==
    /\ resp = [op |-> "setStatus", code |-> 200]
    /\ \E i \in 1..Len(missions) :
          /\ missions[i].status = "completed"
          /\ missions[i].completed_at # NoTime
          /\ missions[i].started_at = NoTime

\* C26: no operation removes a mission or changes the id or mission_code of
\* an existing one, and only setStatus changes a mission's status,
\* started_at or completed_at: updateObservations, setSignature, photo
\* upload, submit inspection and the reads leave them as they are.
C26_IdentityAndStatusFrame ==
    [][/\ Len(missions') >= Len(missions)
       /\ \A i \in 1..Len(missions) :
             /\ missions'[i].id = missions[i].id
             /\ missions'[i].mission_code = missions[i].mission_code
             /\ \/ /\ missions'[i].status = missions[i].status
                   /\ missions'[i].started_at = missions[i].started_at
                   /\ missions'[i].completed_at = missions[i].completed_at
                \/ \E status \in RecognizedStatuses(deployment) :
                      SetStatus(missions[i].id, status, TRUE)]_vars

\* C26 witness: an inspection has been saved for a mission that is in
\* progress, and the mission is still in progress, not completed.
C26_Witness ==
    /\ resp = [op |-> "inspection", code |-> 200]
    /\ \E i \in 1..Len(missions) :
          /\ missions[i].status = "in_progress"
          /\ missions[i].started_at # NoTime
          /\ missions[i].completed_at = NoTime
          /\ missions[i].observations = "o1"
          /\ InspectionOf(inspections, missions[i].id) # 0

====
